---- MODULE Spec2Model ----
(***************************************************************************)
(* A model of performancecounter (src/src/main.rs): the kperf counter      *)
(* setup protocol (AppleEvents), the start/end snapshot collector          *)
(* (EventCollector) and the statistics computed by count_events.           *)
(*                                                                         *)
(* f64 values are modelled as exact rationals in lowest terms, plus NaN,   *)
(* the min seed 1e300 and symbolic irrational square roots.  Every value   *)
(* the model produces from a counter is far below 2^53, where u64 -> f64   *)
(* is exact.                                                               *)
(***************************************************************************)
EXTENDS Integers, Sequences, FiniteSets, TLC

\* ------------------------------------------------------------------ bounds
MaxReps == 3       \* largest `repeat` handed to count_events
MaxClock == 1      \* the wall clock advances at most this far
MaxOps == 3        \* start()/end()/has_events() calls of a free client
MaxWork == 1       \* bursts of counted hardware events of a free client
MaxReadFail == 1   \* injected kpc_get_thread_counters failures
MaxThreads == 2    \* threads reading their counters concurrently
MaxThreadReads == 3  \* counter reads each of those threads makes

\* ------------------------------------------------------- program constants
KPC_MAX_COUNTERS == 32
KPC_CLASS_FIXED_MASK == 1
KPC_CLASS_CONFIGURABLE_MASK == 2

\* --------------------------------------------------------------------- f64
Abs(x) == IF x < 0 THEN -x ELSE x

RECURSIVE GCD(_, _)
GCD(a, b) == IF b = 0 THEN a ELSE GCD(b, a % b)

\* the rational n/d (d > 0) in lowest terms
Rat(n, d) ==
    LET g == GCD(Abs(n), d)
    IN  [k |-> "num", n |-> n \div g, d |-> d \div g]

NaN == [k |-> "nan", n |-> 0, d |-> 1]
\* the literal 1e300: larger than every counter-derived value
F1e300 == [k |-> "e300", n |-> 0, d |-> 1]
\* the irrational square root of the rational n/d
Root(n, d) == [k |-> "sqrt", n |-> n, d |-> d]

\* `x as f64` for a u64 x
U64ToF64(x) == Rat(x, 1)

\* `x as f64` for a usize x
UsizeToF64(x) == Rat(x, 1)

\* `x as u64` for an f64 x: NaN gives 0, negatives saturate to 0, the
\* fraction is dropped
F64ToU64(x) ==
    CASE x.k = "nan" -> 0
      [] x.k = "num" -> IF x.n < 0 THEN 0 ELSE x.n \div x.d

FSub(a, b) ==
    CASE a.k = "nan" \/ b.k = "nan" -> NaN
      [] a.k = "num" /\ b.k = "num" -> Rat(a.n * b.d - b.n * a.d, a.d * b.d)

FAdd(a, b) ==
    CASE a.k = "nan" \/ b.k = "nan" -> NaN
      [] a.k = "num" /\ b.k = "num" -> Rat(a.n * b.d + b.n * a.d, a.d * b.d)

FMul(a, b) ==
    CASE a.k = "nan" \/ b.k = "nan" -> NaN
      [] a.k = "num" /\ b.k = "num" -> Rat(a.n * b.n, a.d * b.d)

\* a / b; 0.0 / 0.0 is NaN
FDiv(a, b) ==
    CASE a.k = "nan" \/ b.k = "nan" -> NaN
      [] a.k = "num" /\ b.k = "num" /\ b.n = 0 /\ a.n = 0 -> NaN
      [] a.k = "num" /\ b.k = "num" /\ b.n > 0 -> Rat(a.n * b.d, a.d * b.n)
      [] a.k = "num" /\ b.k = "num" /\ b.n < 0 -> Rat(-(a.n * b.d), a.d * (-b.n))

\* a < b on non-NaN values
FLess(a, b) ==
    CASE a.k = "num" /\ b.k = "num" -> a.n * b.d < b.n * a.d
      [] a.k = "num" /\ b.k = "e300" -> TRUE
      [] a.k = "e300" -> FALSE

\* f64::min / f64::max: a NaN operand is ignored
F64Min(a, b) ==
    IF a.k = "nan" THEN b
    ELSE IF b.k = "nan" THEN a
    ELSE IF FLess(b, a) THEN b ELSE a

F64Max(a, b) ==
    IF a.k = "nan" THEN b
    ELSE IF b.k = "nan" THEN a
    ELSE IF FLess(a, b) THEN b ELSE a

\* the integer square root of x >= 0, by bisection: lo * lo <= x < hi * hi
RECURSIVE IntRootIn(_, _, _)
IntRootIn(x, lo, hi) ==
    IF hi - lo <= 1 THEN lo
    ELSE LET mid == (lo + hi) \div 2
         IN  IF mid * mid <= x THEN IntRootIn(x, mid, hi)
             ELSE IntRootIn(x, lo, mid)

IntRoot(x) == IntRootIn(x, 0, IF x < 46340 THEN x + 1 ELSE 46341)
IsSquare(x) == IntRoot(x) * IntRoot(x) = x

\* f64::sqrt: exact where the radicand is the square of a rational, NaN for
\* a negative radicand
F64Sqrt(a) ==
    CASE a.k = "nan" -> NaN
      [] a.k = "num" /\ a.n < 0 -> NaN
      [] a.k = "num" /\ a.n >= 0 /\ IsSquare(a.n) /\ IsSquare(a.d) ->
            Rat(IntRoot(a.n), IntRoot(a.d))
      [] a.k = "num" /\ a.n >= 0 /\ ~(IsSquare(a.n) /\ IsSquare(a.d)) ->
            Root(a.n, a.d)

\* ----------------------------------------------------- PerformanceCounters
PerformanceCounters_new_f64(c, b, m, i) ==
    [cycles |-> c, branches |-> b, missed_branches |-> m, instructions |-> i]

PerformanceCounters_from_value(init) ==
    [cycles |-> init, branches |-> init, missed_branches |-> init,
     instructions |-> init]

PerformanceCounters_default == PerformanceCounters_from_value(Rat(0, 1))

\* EventCount accessors: the metric's index in event_counts
EventCount_cycles(ec) == ec.event_counts[0]
EventCount_instructions(ec) == ec.event_counts[1]
EventCount_missed_branches(ec) == ec.event_counts[2]
EventCount_branches(ec) == ec.event_counts[4]

PerformanceCounters_from_event_count(ec) ==
    [cycles |-> U64ToF64(EventCount_cycles(ec)),
     branches |-> U64ToF64(EventCount_branches(ec)),
     missed_branches |-> U64ToF64(EventCount_missed_branches(ec)),
     instructions |-> U64ToF64(EventCount_instructions(ec))]

PerformanceCounters_squared(p) ==
    [cycles |-> FMul(p.cycles, p.cycles),
     branches |-> FMul(p.branches, p.branches),
     missed_branches |-> FMul(p.missed_branches, p.missed_branches),
     instructions |-> FMul(p.instructions, p.instructions)]

PerformanceCounters_sqrt(p) ==
    [cycles |-> F64Sqrt(p.cycles),
     branches |-> F64Sqrt(p.branches),
     missed_branches |-> F64Sqrt(p.missed_branches),
     instructions |-> F64Sqrt(p.instructions)]

PerformanceCounters_sub(p, q) ==
    [cycles |-> FSub(p.cycles, q.cycles),
     branches |-> FSub(p.branches, q.branches),
     missed_branches |-> FSub(p.missed_branches, q.missed_branches),
     instructions |-> FSub(p.instructions, q.instructions)]

PerformanceCounters_add_assign(p, q) ==
    [cycles |-> FAdd(p.cycles, q.cycles),
     branches |-> FAdd(p.branches, q.branches),
     missed_branches |-> FAdd(p.missed_branches, q.missed_branches),
     instructions |-> FAdd(p.instructions, q.instructions)]

PerformanceCounters_divide_assign(p, numerator) ==
    [cycles |-> FDiv(p.cycles, numerator),
     branches |-> FDiv(p.branches, numerator),
     missed_branches |-> FDiv(p.missed_branches, numerator),
     instructions |-> FDiv(p.instructions, numerator)]

\* mutant: the branches line of min copied from max
PerformanceCounters_min_branches_max(p, q) ==
    [cycles |-> F64Min(p.cycles, q.cycles),
     branches |-> F64Max(p.branches, q.branches),
     missed_branches |-> F64Min(p.missed_branches, q.missed_branches),
     instructions |-> F64Min(p.instructions, q.instructions)]

PerformanceCounters_min(p, q) ==
    [cycles |-> F64Min(p.cycles, q.cycles),
     branches |-> F64Min(p.branches, q.branches),
     missed_branches |-> F64Min(p.missed_branches, q.missed_branches),
     instructions |-> F64Min(p.instructions, q.instructions)]

\* mutant: max written with f64::min
PerformanceCounters_max_with_min(p, q) ==
    [cycles |-> F64Min(p.cycles, q.cycles),
     branches |-> F64Min(p.branches, q.branches),
     missed_branches |-> F64Min(p.missed_branches, q.missed_branches),
     instructions |-> F64Min(p.instructions, q.instructions)]

PerformanceCounters_max(p, q) ==
    [cycles |-> F64Max(p.cycles, q.cycles),
     branches |-> F64Max(p.branches, q.branches),
     missed_branches |-> F64Max(p.missed_branches, q.missed_branches),
     instructions |-> F64Max(p.instructions, q.instructions)]

EventCount_default ==
    [elapsed |-> 0, event_counts |-> [i \in 0..4 |-> 0]]

\* -------------------------------------------------- count_events, pass 1/2
\* first loop over the samples: total, running minimum and maximum
RECURSIVE Pass1(_, _)
Pass1(samples, acc) ==
    IF samples = <<>> THEN acc
    ELSE LET sample == PerformanceCounters_from_event_count(Head(samples))
         IN  Pass1(Tail(samples),
                   [total |-> PerformanceCounters_add_assign(acc.total, sample),
                    minimum |-> PerformanceCounters_min(acc.minimum, sample),
                    maximum |-> PerformanceCounters_max(acc.maximum, sample)])

\* mutant: the second loop squares the samples, not their deviations
RECURSIVE Pass2_without_mean(_, _, _)
Pass2_without_mean(samples, mean, variance) ==
    IF samples = <<>> THEN variance
    ELSE LET sample == PerformanceCounters_from_event_count(Head(samples))
         IN  Pass2_without_mean(Tail(samples), mean,
                   PerformanceCounters_add_assign(
                       variance, PerformanceCounters_squared(sample)))

\* second loop over the samples: sum of squared deviations from the mean
RECURSIVE Pass2(_, _, _)
Pass2(samples, mean, variance) ==
    IF samples = <<>> THEN variance
    ELSE LET sample == PerformanceCounters_from_event_count(Head(samples))
             diff == PerformanceCounters_sub(sample, mean)
         IN  Pass2(Tail(samples), mean,
                   PerformanceCounters_add_assign(
                       variance, PerformanceCounters_squared(diff)))

\* the Run that count_events builds from the samples it collected
Statistics(repeat, samples) ==
    LET acc == Pass1(samples,
                     [total |-> PerformanceCounters_default,
                      minimum |-> PerformanceCounters_from_value(F1e300),
                      maximum |-> PerformanceCounters_from_value(Rat(0, 1))])
        mean == PerformanceCounters_divide_assign(acc.total, UsizeToF64(repeat))
        variance == Pass2(samples, mean, PerformanceCounters_default)
    IN  [mean |-> mean,
         minimum |-> acc.minimum,
         maximum |-> acc.maximum,
         standard_deviation |-> PerformanceCounters_sqrt(variance)]

\* ------------------------------------------------------- the Counter Backend
\* profile_events: each logical event with its candidate names, in order
\* (the null entries that end each list are left out)
profile_events ==
    << [alias |-> "cycles",
        names |-> <<"FIXED_CYCLES", "CPU_CLK_UNHALTED.THREAD",
                    "CPU_CLK_UNHALTED.CORE">>],
       [alias |-> "instructions",
        names |-> <<"FIXED_INSTRUCTIONS", "INST_RETIRED.ANY">>],
       [alias |-> "branches",
        names |-> <<"INST_BRANCH", "BR_INST_RETIRED.ALL_BRANCHES",
                    "INST_RETIRED.ANY">>],
       [alias |-> "branch-misses",
        names |-> <<"BRANCH_MISPRED_NONSPEC", "BRANCH_MISPREDICT",
                    "BR_MISP_RETIRED.ALL_BRANCHES",
                    "BR_INST_RETIRED.MISPRED">>] >>

Slots == 0..(KPC_MAX_COUNTERS - 1)

\* event databases of /usr/share/kpep: the names each one knows
DbApple ==
    {"FIXED_CYCLES", "FIXED_INSTRUCTIONS", "INST_BRANCH",
     "BRANCH_MISPRED_NONSPEC"}
DbAppleOld ==
    {"FIXED_CYCLES", "FIXED_INSTRUCTIONS", "INST_BRANCH", "BRANCH_MISPREDICT"}
DbIntelCore ==
    {"CPU_CLK_UNHALTED.THREAD", "INST_RETIRED.ANY",
     "BR_INST_RETIRED.ALL_BRANCHES", "BR_MISP_RETIRED.ALL_BRANCHES"}
DbYonah ==
    {"CPU_CLK_UNHALTED.CORE", "INST_RETIRED.ANY", "BR_INST_RETIRED.MISPRED"}
DbNoBranches ==
    {"FIXED_CYCLES", "FIXED_INSTRUCTIONS", "BRANCH_MISPREDICT"}
DbEmpty == {}

\* slot assignments the backend may report for the four events
SlotMaps == { <<0, 1, 2, 3>>, <<1, 0, 5, 2>>, <<4, 7, 3, 6>> }

\* the backend calls of the setup protocol that report a code
SetupCalls ==
    << "kpc_force_all_ctrs_get", "kpep_db_create", "kpep_config_create",
       "kpep_config_force_counters", "kpep_config_add_event",
       "kpep_config_kpc_classes", "kpep_config_kpc_count",
       "kpep_config_kpc_map", "kpep_config_kpc", "kpc_force_all_ctrs_set",
       "kpc_set_config", "kpc_set_counting", "kpc_set_thread_counting" >>

NoFault == [call |-> "none", nth |-> 0]

\* one Counter Backend: whether the libraries and their symbols load, the
\* call (and which invocation of it) that reports an error, the database,
\* and what the configuration reads back
Backend(libs, fault, db, map, classes, reg_count) ==
    [libs |-> libs, fault |-> fault, db |-> db, map |-> map,
     classes |-> classes, reg_count |-> reg_count]

HealthyBackends ==
    { Backend("ok", NoFault, DbApple, m, 3, 2) : m \in SlotMaps }
    \cup { Backend("ok", NoFault, DbIntelCore, <<0, 1, 2, 3>>, 1, 2),
           Backend("ok", NoFault, DbYonah, <<1, 0, 5, 2>>, 3, 0) }

FaultyBackends ==
    { Backend("ok", [call |-> SetupCalls[i], nth |-> 1], DbApple,
              <<1, 0, 5, 2>>, 3, 2) : i \in 1..Len(SetupCalls) }
    \cup { Backend("ok", [call |-> "kpep_config_add_event", nth |-> n],
                   DbAppleOld, <<1, 0, 5, 2>>, 3, 2) : n \in 2..4 }
    \cup { Backend("ok", NoFault, db, <<1, 0, 5, 2>>, 3, 2) :
              db \in {DbNoBranches, DbEmpty} }

UnloadableBackends ==
    { Backend(l, NoFault, DbApple, <<0, 1, 2, 3>>, 3, 2) :
         l \in {"kperf_missing", "kperfdata_missing", "symbol_missing"} }

Backends == HealthyBackends \cup FaultyBackends \cup UnloadableBackends

\* the backends a client that calls start()/end() freely is run against: two
\* slot maps, a failure at the first gate, after the slot map was written,
\* at the last gate and in event resolution, and a missing symbol
ReadyBackends ==
    { Backend("ok", NoFault, DbApple, m, 3, 2) :
         m \in {<<0, 1, 2, 3>>, <<1, 0, 5, 2>>} }

ClientBackends ==
    ReadyBackends
    \cup { Backend("ok", [call |-> c, nth |-> 1], DbApple,
                   <<1, 0, 5, 2>>, 3, 2) :
              c \in {"kpc_force_all_ctrs_get", "kpep_config_kpc",
                     "kpc_set_thread_counting"} }
    \cup { Backend("ok", NoFault, DbNoBranches, <<1, 0, 5, 2>>, 3, 2),
           Backend("symbol_missing", NoFault, DbApple, <<0, 1, 2, 3>>, 3, 2) }

\* the backends count_events is run against: one that gets Ready, the
\* failures of setup above, and each way of not loading
RunBackends ==
    { Backend("ok", NoFault, DbApple, <<0, 1, 2, 3>>, 3, 2) }
    \cup { b \in ClientBackends : b.fault # NoFault \/ b.db # DbApple }
    \cup UnloadableBackends

\* the code the backend reports for the nth invocation of `call`
Code(be, call, nth) ==
    IF be.fault.call = call /\ be.fault.nth = nth THEN 1 ELSE 0

\* a logged backend call: its name, the event name or class mask or flag
\* passed (where it takes one), and the code it reported
Call(name, ev, arg, ret) == [call |-> name, ev |-> ev, arg |-> arg, ret |-> ret]

\* the register values kpep_config_kpc writes for the configurable counters
RegValue(be, i) == IF i < be.reg_count THEN 100 + i ELSE 0

\* --------------------------------------------------------------- get_event
\* tries the alias's names in order; [ev, log]: the first name the database
\* knows ("null" when none) and the calls made
\* mutant: keeps trying names after one resolved; the last one known wins
RECURSIVE get_event_last_from(_, _, _, _, _)
get_event_last_from(be, names, i, log, ev) ==
    IF i > Len(names) THEN [ev |-> ev, log |-> log]
    ELSE IF names[i] \in be.db
         THEN get_event_last_from(be, names, i + 1,
                  Append(log, Call("kpep_db_event", names[i], 0, 0)), names[i])
         ELSE get_event_last_from(be, names, i + 1,
                  Append(log, Call("kpep_db_event", names[i], 0, 1)), ev)

get_event_from_exhaustive(be, names, i, log) ==
    get_event_last_from(be, names, i, log, "null")

RECURSIVE get_event_from(_, _, _, _)
get_event_from(be, names, i, log) ==
    IF i > Len(names) THEN [ev |-> "null", log |-> log]
    ELSE IF names[i] \in be.db
         THEN [ev |-> names[i],
               log |-> Append(log, Call("kpep_db_event", names[i], 0, 0))]
         ELSE get_event_from(be, names, i + 1,
                             Append(log, Call("kpep_db_event", names[i], 0, 1)))

get_event(be, alias, log) == get_event_from(be, alias.names, 1, log)

\* ------------------------------------------------------------- AppleEvents
AppleEvents_new ==
    [regs |-> [i \in Slots |-> 0],
     counter_map |-> [i \in Slots |-> 0],
     counters_0 |-> [i \in Slots |-> 0],
     init |-> FALSE,
     worked |-> FALSE]

\* an exit of setup_performance_counters: [ae, log, ret]
SetupExit(ae, log, worked) ==
    [ae |-> [ae EXCEPT !.worked = worked], log |-> log, ret |-> worked]

\* mutant: the code kpc_set_counting reports is not looked at
SetupKernel_unchecked_set_counting(ae, be, log, classes, reg_count) ==
    LET c1 == Code(be, "kpc_force_all_ctrs_set", 1)
        l1 == Append(log, Call("kpc_force_all_ctrs_set", "", 1, c1))
        program == (classes \div KPC_CLASS_CONFIGURABLE_MASK) % 2 # 0
                   /\ reg_count # 0
        c2 == Code(be, "kpc_set_config", 1)
        l2 == IF program
              THEN Append(l1, Call("kpc_set_config", "", classes, c2))
              ELSE l1
        c3 == Code(be, "kpc_set_counting", 1)
        l3 == Append(l2, Call("kpc_set_counting", "", classes, c3))
        c4 == Code(be, "kpc_set_thread_counting", 1)
        l4 == Append(l3, Call("kpc_set_thread_counting", "", classes, c4))
    IN  IF c1 # 0 THEN SetupExit(ae, l1, FALSE)
        ELSE IF program /\ c2 # 0 THEN SetupExit(ae, l2, FALSE)
        ELSE IF c4 # 0 THEN SetupExit(ae, l4, FALSE)
        ELSE SetupExit(ae, l4, TRUE)

\* mutant: the registers are programmed whatever the class mask and the
\* register count are
SetupKernel_always_program(ae, be, log, classes, reg_count) ==
    LET c1 == Code(be, "kpc_force_all_ctrs_set", 1)
        l1 == Append(log, Call("kpc_force_all_ctrs_set", "", 1, c1))
        c2 == Code(be, "kpc_set_config", 1)
        l2 == Append(l1, Call("kpc_set_config", "", classes, c2))
        c3 == Code(be, "kpc_set_counting", 1)
        l3 == Append(l2, Call("kpc_set_counting", "", classes, c3))
        c4 == Code(be, "kpc_set_thread_counting", 1)
        l4 == Append(l3, Call("kpc_set_thread_counting", "", classes, c4))
    IN  IF c1 # 0 THEN SetupExit(ae, l1, FALSE)
        ELSE IF c2 # 0 THEN SetupExit(ae, l2, FALSE)
        ELSE IF c3 # 0 THEN SetupExit(ae, l3, FALSE)
        ELSE IF c4 # 0 THEN SetupExit(ae, l4, FALSE)
        ELSE SetupExit(ae, l4, TRUE)

\* "set config to kernel" and "start counting", lines 626-665
SetupKernel(ae, be, log, classes, reg_count) ==
    LET c1 == Code(be, "kpc_force_all_ctrs_set", 1)
        l1 == Append(log, Call("kpc_force_all_ctrs_set", "", 1, c1))
        program == (classes \div KPC_CLASS_CONFIGURABLE_MASK) % 2 # 0
                   /\ reg_count # 0
        c2 == Code(be, "kpc_set_config", 1)
        l2 == IF program
              THEN Append(l1, Call("kpc_set_config", "", classes, c2))
              ELSE l1
        c3 == Code(be, "kpc_set_counting", 1)
        l3 == Append(l2, Call("kpc_set_counting", "", classes, c3))
        c4 == Code(be, "kpc_set_thread_counting", 1)
        l4 == Append(l3, Call("kpc_set_thread_counting", "", classes, c4))
    IN  IF c1 # 0 THEN SetupExit(ae, l1, FALSE)
        ELSE IF program /\ c2 # 0 THEN SetupExit(ae, l2, FALSE)
        ELSE IF c3 # 0 THEN SetupExit(ae, l3, FALSE)
        ELSE IF c4 # 0 THEN SetupExit(ae, l4, FALSE)
        ELSE SetupExit(ae, l4, TRUE)

\* "prepare buffer and config", lines 573-624
SetupReadBack(ae, be, log) ==
    LET c1 == Code(be, "kpep_config_kpc_classes", 1)
        l1 == Append(log, Call("kpep_config_kpc_classes", "", 0, c1))
        classes == be.classes
        c2 == Code(be, "kpep_config_kpc_count", 1)
        l2 == Append(l1, Call("kpep_config_kpc_count", "", 0, c2))
        reg_count == be.reg_count
        c3 == Code(be, "kpep_config_kpc_map", 1)
        l3 == Append(l2, Call("kpep_config_kpc_map", "", 0, c3))
        ae3 == [ae EXCEPT !.counter_map =
                   [i \in Slots |->
                       IF i < Len(be.map) THEN be.map[i + 1] ELSE @[i]]]
        c4 == Code(be, "kpep_config_kpc", 1)
        l4 == Append(l3, Call("kpep_config_kpc", "", 0, c4))
        ae4 == [ae3 EXCEPT !.regs = [i \in Slots |-> RegValue(be, i)]]
    IN  IF c1 # 0 THEN SetupExit(ae, l1, FALSE)
        ELSE IF c2 # 0 THEN SetupExit(ae, l2, FALSE)
        ELSE IF c3 # 0 THEN SetupExit(ae, l3, FALSE)
        ELSE IF c4 # 0 THEN SetupExit(ae3, l4, FALSE)
        ELSE SetupKernel(ae4, be, l4, classes, reg_count)

\* mutant: the events are added last to first
RECURSIVE SetupAddEvents_reversed(_, _, _, _, _)
SetupAddEvents_reversed(ae, be, log, ev_arr, i) ==
    IF i > Len(ev_arr) THEN SetupReadBack(ae, be, log)
    ELSE LET c == Code(be, "kpep_config_add_event", i)
             l == Append(log, Call("kpep_config_add_event",
                                   ev_arr[Len(ev_arr) + 1 - i], 0, c))
         IN  IF c # 0 THEN SetupExit(ae, l, FALSE)
             ELSE SetupAddEvents_reversed(ae, be, l, ev_arr, i + 1)

\* "add event to config", lines 558-571: ev_arr[i..] in order
RECURSIVE SetupAddEvents(_, _, _, _, _)
SetupAddEvents(ae, be, log, ev_arr, i) ==
    IF i > Len(ev_arr) THEN SetupReadBack(ae, be, log)
    ELSE LET c == Code(be, "kpep_config_add_event", i)
             l == Append(log, Call("kpep_config_add_event", ev_arr[i], 0, c))
         IN  IF c # 0 THEN SetupExit(ae, l, FALSE)
             ELSE SetupAddEvents(ae, be, l, ev_arr, i + 1)

\* "get events", lines 545-556: resolves profile_events[i..] in order
RECURSIVE SetupGetEvents(_, _, _, _, _)
SetupGetEvents(ae, be, log, ev_arr, i) ==
    IF i > Len(profile_events) THEN SetupAddEvents(ae, be, log, ev_arr, 1)
    ELSE LET r == get_event(be, profile_events[i], log)
         IN  IF r.ev = "null" THEN SetupExit(ae, r.log, FALSE)
             ELSE SetupGetEvents(ae, be, r.log, Append(ev_arr, r.ev), i + 1)

\* permission, database and configuration, lines 500-543
SetupProtocol(ae, be, log) ==
    LET c1 == Code(be, "kpc_force_all_ctrs_get", 1)
        l1 == Append(log, Call("kpc_force_all_ctrs_get", "", 0, c1))
        c2 == Code(be, "kpep_db_create", 1)
        l2 == Append(l1, Call("kpep_db_create", "", 0, c2))
        c3 == Code(be, "kpep_config_create", 1)
        l3 == Append(l2, Call("kpep_config_create", "", 0, c3))
        c4 == Code(be, "kpep_config_force_counters", 1)
        l4 == Append(l3, Call("kpep_config_force_counters", "", 0, c4))
    IN  IF c1 # 0 THEN SetupExit(ae, l1, FALSE)
        ELSE IF c2 # 0 THEN SetupExit(ae, l2, FALSE)
        ELSE IF c3 # 0 THEN SetupExit(ae, l3, FALSE)
        ELSE IF c4 # 0 THEN SetupExit(ae, l4, FALSE)
        ELSE SetupGetEvents(ae, be, l4, <<>>, 1)

\* mutant: setup without the `if self.init` early return
setup_performance_counters_uncached(ae, be, log) ==
    SetupProtocol([ae EXCEPT !.init = TRUE], be, log)

\* AppleEvents::setup_performance_counters: [ae, log, ret]
setup_performance_counters(ae, be, log) ==
    IF ae.init
    THEN [ae |-> ae, log |-> log, ret |-> ae.worked]
    ELSE SetupProtocol([ae EXCEPT !.init = TRUE], be, log)

\* mutant: instructions and branches read through each other's slot
get_counters_swapped(ae, hw, code, log) ==
    LET l == Append(log, Call("kpc_get_thread_counters", "", 0, code))
        ae1 == [ae EXCEPT !.counters_0 = hw]
    IN  IF code # 0
        THEN [ae |-> ae, log |-> l,
              ret |-> PerformanceCounters_from_value(Rat(1, 1))]
        ELSE [ae |-> ae1, log |-> l,
              ret |-> PerformanceCounters_new_f64(
                  U64ToF64(ae1.counters_0[ae1.counter_map[0]]),
                  U64ToF64(ae1.counters_0[ae1.counter_map[1]]),
                  U64ToF64(ae1.counters_0[ae1.counter_map[3]]),
                  U64ToF64(ae1.counters_0[ae1.counter_map[2]]))]

\* mutant: the code of the read is ignored; a failed read returns what the
\* buffer held before
get_counters_stale(ae, hw, code, log) ==
    LET l == Append(log, Call("kpc_get_thread_counters", "", 0, code))
        ae1 == IF code # 0 THEN ae ELSE [ae EXCEPT !.counters_0 = hw]
    IN  [ae |-> ae1, log |-> l,
         ret |-> PerformanceCounters_new_f64(
             U64ToF64(ae1.counters_0[ae1.counter_map[0]]),
             U64ToF64(ae1.counters_0[ae1.counter_map[2]]),
             U64ToF64(ae1.counters_0[ae1.counter_map[3]]),
             U64ToF64(ae1.counters_0[ae1.counter_map[1]]))]

\* mutant: a failed read marks the collector as not working
get_counters_giving_up(ae, hw, code, log) ==
    LET l == Append(log, Call("kpc_get_thread_counters", "", 0, code))
        ae1 == [ae EXCEPT !.counters_0 = hw]
    IN  IF code # 0
        THEN [ae |-> [ae EXCEPT !.worked = FALSE], log |-> l,
              ret |-> PerformanceCounters_from_value(Rat(1, 1))]
        ELSE [ae |-> ae1, log |-> l,
              ret |-> PerformanceCounters_new_f64(
                  U64ToF64(ae1.counters_0[ae1.counter_map[0]]),
                  U64ToF64(ae1.counters_0[ae1.counter_map[2]]),
                  U64ToF64(ae1.counters_0[ae1.counter_map[3]]),
                  U64ToF64(ae1.counters_0[ae1.counter_map[1]]))]

\* AppleEvents::get_counters: [ae, log, ret] for a read of the thread
\* counters `hw` that the backend answers with `code`
get_counters(ae, hw, code, log) ==
    LET l == Append(log, Call("kpc_get_thread_counters", "", 0, code))
        ae1 == [ae EXCEPT !.counters_0 = hw]
    IN  IF code # 0
        THEN [ae |-> ae, log |-> l,
              ret |-> PerformanceCounters_from_value(Rat(1, 1))]
        ELSE [ae |-> ae1, log |-> l,
              ret |-> PerformanceCounters_new_f64(
                  U64ToF64(ae1.counters_0[ae1.counter_map[0]]),
                  U64ToF64(ae1.counters_0[ae1.counter_map[2]]),
                  U64ToF64(ae1.counters_0[ae1.counter_map[3]]),
                  U64ToF64(ae1.counters_0[ae1.counter_map[1]]))]

\* ---------------------------------------------------------- EventCollector
\* EventCollector::new: runs the setup protocol, then takes start_clock;
\* [c, log, ret]: ret is what the setup call returned
EventCollector_new(be, now, log) ==
    LET Built(r) ==
            [c |-> [count |-> EventCount_default,
                    start_clock |-> now,
                    apple_events |-> r.ae,
                    diff |-> PerformanceCounters_default],
             log |-> r.log,
             ret |-> r.ret]
    IN  Built(setup_performance_counters(AppleEvents_new, be, log))

\* EventCollector::has_events: [c, log, ret]
has_events(c, be, log) ==
    LET Returned(r) ==
            [c |-> [c EXCEPT !.apple_events = r.ae], log |-> r.log,
             ret |-> r.ret]
    IN  Returned(setup_performance_counters(c.apple_events, be, log))

\* mutant: start() reads the counters whatever has_events() returned
start_unchecked(c, be, hw, code, log) ==
    LET Read(h, g) ==
            [c |-> [h.c EXCEPT !.apple_events = g.ae, !.diff = g.ret],
             log |-> g.log, has_events |-> h.ret]
        Checked(h) ==
            Read(h, get_counters(h.c.apple_events, hw, code, h.log))
    IN  Checked(has_events(c, be, log))

\* mutant: a start() that finds a sample in diff keeps it
start_keeping_first(c, be, hw, code, log) ==
    LET Read(h, g) ==
            IF h.ret /\ c.diff = PerformanceCounters_default
            THEN [c |-> [h.c EXCEPT !.apple_events = g.ae, !.diff = g.ret],
                  log |-> g.log, has_events |-> TRUE]
            ELSE [c |-> h.c, log |-> h.log, has_events |-> h.ret]
        Checked(h) ==
            Read(h, get_counters(h.c.apple_events, hw, code, h.log))
    IN  Checked(has_events(c, be, log))

\* EventCollector::start: [c, log, has_events]: has_events is what the
\* call's has_events() returned
start(c, be, hw, code, log) ==
    LET Read(h, g) ==
            IF h.ret
            THEN [c |-> [h.c EXCEPT !.apple_events = g.ae, !.diff = g.ret],
                  log |-> g.log, has_events |-> TRUE]
            ELSE [c |-> h.c, log |-> h.log, has_events |-> FALSE]
        Checked(h) ==
            Read(h, get_counters(h.c.apple_events, hw, code, h.log))
    IN  Checked(has_events(c, be, log))

\* mutant: the branches are stored in slot 3 and slot 4 is the zero one
EndCount_zero_last(c, end_clock) ==
    [elapsed |-> end_clock - c.start_clock,
     event_counts |->
        [i \in 0..4 |->
            CASE i = 0 -> F64ToU64(c.diff.cycles)
              [] i = 1 -> F64ToU64(c.diff.instructions)
              [] i = 2 -> F64ToU64(c.diff.missed_branches)
              [] i = 3 -> F64ToU64(c.diff.branches)
              [] i = 4 -> 0]]

\* lines 193-199 of EventCollector::end: the count built from diff and the
\* two clocks
EndCount(c, end_clock) ==
    [elapsed |-> end_clock - c.start_clock,
     event_counts |->
        [i \in 0..4 |->
            CASE i = 0 -> F64ToU64(c.diff.cycles)
              [] i = 1 -> F64ToU64(c.diff.instructions)
              [] i = 2 -> F64ToU64(c.diff.missed_branches)
              [] i = 3 -> 0
              [] i = 4 -> F64ToU64(c.diff.branches)]]

\* EventCollector::end: [c, log, ret, has_events]: ret is the count
\* returned, has_events what the call's has_events() returned
end(c, be, hw, code, now, log) ==
    LET end_clock == now
        Counted(c1, l, worked) ==
            [c |-> [c1 EXCEPT !.count = EndCount(c1, end_clock)],
             log |-> l, ret |-> EndCount(c1, end_clock),
             has_events |-> worked]
        Read(h, g) ==
            IF h.ret
            THEN Counted([h.c EXCEPT !.apple_events = g.ae,
                                     !.diff = PerformanceCounters_sub(g.ret, @)],
                         g.log, TRUE)
            ELSE Counted(h.c, h.log, FALSE)
        Checked(h) ==
            Read(h, get_counters(h.c.apple_events, hw, code, h.log))
    IN  Checked(has_events(c, be, log))

\* ------------------------------------------------------------------- state
VARIABLES
    backend,     \* the Counter Backend this process runs against
    hw,          \* the calling thread's hardware counters, one per slot
    clock,       \* the system clock (SystemTime::now())
    log,         \* the backend calls issued so far
    pc,          \* where the client, or count_events, stands
    collector,   \* the EventCollector: count, start_clock, apple_events, diff
    repeat,      \* count_events: the argument
    samples,     \* count_events: the deltas pushed so far
    result,      \* count_events: the Run returned
    trace,       \* history: the start / f / end calls made, in order
    obs,         \* history: what was observable at the most recent calls
    WARNED,      \* get_counters: the process-wide static latch
    stdout,      \* the lines the process has printed
    threads      \* concurrent callers of get_counters: where each stands

vars == <<backend, hw, clock, log, pc, collector, repeat, samples, result,
          trace, obs, WARNED, stdout, threads>>

\* lines 677-681 of get_counters run by one caller at a time: the latch
\* after a read that failed or not, and what has been printed
WarnOnce(warned, out, failed) ==
    [WARNED |-> warned \/ failed,
     stdout |-> IF failed /\ ~warned
                THEN Append(out, "Failed to get thread counters.")
                ELSE out]

Threads == 1..MaxThreads
NoThreads == [t \in Threads |-> [pc |-> "idle", reads |-> 0, fails |-> 0]]

NoCollector ==
    [count |-> EventCount_default, start_clock |-> 0,
     apple_events |-> AppleEvents_new, diff |-> PerformanceCounters_default]

NoRun ==
    [mean |-> PerformanceCounters_default,
     minimum |-> PerformanceCounters_default,
     maximum |-> PerformanceCounters_default,
     standard_deviation |-> PerformanceCounters_default]

ZeroCounters == [s \in Slots |-> 0]

\* obs: new_clock       clock when the collector was constructed
\*      first_ret       what the first setup call returned
\*      first_ae        the AppleEvents state the first setup call left
\*      first_log       the backend calls made up to the end of that call
\*      setups          setup_performance_counters calls made
\*      setup_ret       what the most recent setup call returned
\*      start_hw/_clock/_code   counters, clock and read code (-1: no read)
\*                      at the most recent start()
\*      end_hw/_clock/_code     the same at the most recent end()
\*      starts, ends    start() calls made, end() calls since the last start()
\*      fails           counter reads that failed
\*      works           bursts of client code counted by the hardware
\*      ended           end() calls made
\*      open_starts     the counters at each start() made since the end()
\*                      before the most recent start(), oldest first
\*      ret, rets       the EventCount the most recent end() returned, and
\*                      all of them in order
NoObs ==
    [new_clock |-> 0, first_ret |-> FALSE, first_ae |-> AppleEvents_new,
     first_log |-> <<>>, setups |-> 0, setup_ret |-> FALSE,
     start_hw |-> ZeroCounters, start_clock |-> 0, start_code |-> -1,
     end_hw |-> ZeroCounters, end_clock |-> 0, end_code |-> -1,
     starts |-> 0, ends |-> 0, ended |-> 0, fails |-> 0, works |-> 0,
     ret |-> EventCount_default, rets |-> <<>>, open_starts |-> <<>>]

\* the events one call of the workload (or one burst of client code) adds to
\* each hardware counter
Inc(k) == [s \in Slots |-> k * (s + 1)]
Incs == {Inc(10), Inc(20), Inc(30)}
WorkIncs == {Inc(10), Inc(20)}

\* the codes kpc_get_thread_counters may report now
ReadCodes == IF obs.fails < MaxReadFail THEN {0, 1} ELSE {0}

Ready(c) == c.apple_events.init /\ c.apple_events.worked
Failed(c) == c.apple_events.init /\ ~c.apple_events.worked

\* -------------------------------------------------------- shared steps
\* the collector is constructed
Construct ==
    LET Constructed(r) ==
            /\ collector' = r.c
            /\ log' = r.log
            /\ obs' = [obs EXCEPT !.new_clock = clock, !.first_ret = r.ret,
                                  !.first_ae = r.c.apple_events,
                                  !.first_log = r.log, !.setups = 1,
                                  !.setup_ret = r.ret]
    IN  Constructed(EventCollector_new(backend, clock, log))

\* collector.start() with the counter read answering `code`
DoStart(code) ==
    LET Started(r) ==
            /\ collector' = r.c
            /\ log' = r.log
            /\ obs' = [obs EXCEPT
                          !.setups = @ + 1,
                          !.setup_ret = r.has_events,
                          !.start_hw = hw, !.start_clock = clock,
                          !.start_code = IF r.has_events THEN code ELSE -1,
                          !.starts = @ + 1, !.ends = 0,
                          !.open_starts = IF obs.ends > 0 THEN <<hw>>
                                          ELSE Append(@, hw),
                          !.fails = IF r.has_events /\ code # 0
                                    THEN @ + 1 ELSE @]
            /\ WARNED' = WarnOnce(WARNED, stdout,
                                   r.has_events /\ code # 0).WARNED
            /\ stdout' = WarnOnce(WARNED, stdout,
                                   r.has_events /\ code # 0).stdout
    IN  Started(start(collector, backend, hw, code, log))

\* collector.end() with the counter read answering `code`
DoEnd(code) ==
    LET Ended(r) ==
            /\ collector' = r.c
            /\ log' = r.log
            /\ obs' = [obs EXCEPT
                          !.setups = @ + 1,
                          !.setup_ret = r.has_events,
                          !.end_hw = hw, !.end_clock = clock,
                          !.end_code = IF r.has_events THEN code ELSE -1,
                          !.ends = @ + 1, !.ended = @ + 1,
                          !.fails = IF r.has_events /\ code # 0
                                    THEN @ + 1 ELSE @,
                          !.ret = r.ret, !.rets = Append(@, r.ret)]
            /\ WARNED' = WarnOnce(WARNED, stdout,
                                   r.has_events /\ code # 0).WARNED
            /\ stdout' = WarnOnce(WARNED, stdout,
                                   r.has_events /\ code # 0).stdout
    IN  Ended(end(collector, backend, hw, code, clock, log))

\* the system clock advances
Tick ==
    /\ clock < MaxClock
    /\ clock' = clock + 1
    /\ UNCHANGED <<WARNED, stdout, threads>>
    /\ UNCHANGED <<backend, hw, log, pc, collector, repeat, samples, result,
                   trace, obs>>

\* ------------------------------------------- a client of the EventCollector
InitialCounters == Inc(3)

Init ==
    /\ backend \in ClientBackends
    /\ hw = InitialCounters
    /\ clock = 0
    /\ log = <<>>
    /\ pc = "new"
    /\ collector = NoCollector
    /\ repeat = 0
    /\ samples = <<>>
    /\ result = NoRun
    /\ trace = <<>>
    /\ obs = NoObs
    /\ WARNED = FALSE
    /\ stdout = <<>>
    /\ threads = NoThreads

\* EventCollector::new(kperf, kperfdata); the unwrap of a failed symbol
\* lookup panics
New ==
    /\ pc = "new"
    /\ IF backend.libs = "symbol_missing"
       THEN /\ pc' = "panicked"
            /\ UNCHANGED <<collector, log, obs>>
       ELSE /\ pc' = "live"
            /\ Construct
    /\ UNCHANGED <<WARNED, stdout, threads>>
    /\ UNCHANGED <<backend, hw, clock, repeat, samples, result, trace>>

Start(code) ==
    /\ pc = "live"
    /\ obs.setups <= MaxOps
    /\ DoStart(code)
    /\ UNCHANGED threads
    /\ UNCHANGED <<backend, hw, clock, pc, repeat, samples, result, trace>>

End(code) ==
    /\ pc = "live"
    /\ obs.setups <= MaxOps
    /\ DoEnd(code)
    /\ UNCHANGED threads
    /\ UNCHANGED <<backend, hw, clock, pc, repeat, samples, result, trace>>

HasEvents ==
    /\ pc = "live"
    /\ obs.setups <= MaxOps
    /\ LET Returned(h) ==
               /\ collector' = h.c
               /\ log' = h.log
               /\ obs' = [obs EXCEPT !.setups = @ + 1, !.setup_ret = h.ret]
       IN  Returned(has_events(collector, backend, log))
    /\ UNCHANGED <<WARNED, stdout, threads>>
    /\ UNCHANGED <<backend, hw, clock, pc, repeat, samples, result, trace>>

\* client code runs on the thread and the hardware counts its events
Work(inc) ==
    /\ pc = "live"
    /\ obs.works < MaxWork
    /\ hw' = [s \in Slots |-> hw[s] + inc[s]]
    /\ obs' = [obs EXCEPT !.works = @ + 1]
    /\ UNCHANGED <<WARNED, stdout, threads>>
    /\ UNCHANGED <<backend, clock, log, pc, collector, repeat, samples,
                   result, trace>>

Next ==
    \/ New
    \/ \E code \in ReadCodes : Start(code)
    \/ \E code \in ReadCodes : End(code)
    \/ HasEvents
    \/ \E inc \in WorkIncs : Work(inc)
    \/ Tick

Spec == Init /\ [][Next]_vars

\* ------------------------------------------------------------ count_events
InitRun ==
    /\ backend \in RunBackends
    /\ hw = InitialCounters
    /\ clock = 0
    /\ log = <<>>
    /\ pc = "count_events"
    /\ collector = NoCollector
    /\ repeat \in 0..MaxReps
    /\ samples = <<>>
    /\ result = NoRun
    /\ trace = <<>>
    /\ obs = NoObs
    /\ WARNED = FALSE
    /\ stdout = <<>>
    /\ threads = NoThreads

\* lines 26-42: the two libraries are loaded (a failure panics) and the
\* collector is constructed
RunBegin ==
    /\ pc = "count_events"
    /\ IF backend.libs # "ok"
       THEN /\ pc' = "panicked"
            /\ UNCHANGED <<collector, log, obs>>
       ELSE /\ pc' = "loop"
            /\ Construct
    /\ UNCHANGED <<WARNED, stdout, threads>>
    /\ UNCHANGED <<backend, hw, clock, repeat, samples, result, trace>>

\* line 45: collector.start()
RunStart(code) ==
    /\ pc = "loop"
    /\ Len(samples) < repeat
    /\ DoStart(code)
    /\ trace' = Append(trace, "start")
    /\ pc' = "f"
    /\ UNCHANGED threads
    /\ UNCHANGED <<backend, hw, clock, repeat, samples, result>>

\* line 47: f()
RunWorkload(inc) ==
    /\ pc = "f"
    /\ hw' = [s \in Slots |-> hw[s] + inc[s]]
    /\ obs' = [obs EXCEPT !.works = @ + 1]
    /\ trace' = Append(trace, "f")
    /\ pc' = "end"
    /\ UNCHANGED <<WARNED, stdout, threads>>
    /\ UNCHANGED <<backend, clock, log, collector, repeat, samples, result>>

\* line 49: samples.push(collector.end())
RunEnd(code) ==
    /\ pc = "end"
    /\ DoEnd(code)
    /\ samples' = Append(samples, collector'.count)
    /\ trace' = Append(trace, "end")
    /\ pc' = "loop"
    /\ UNCHANGED threads
    /\ UNCHANGED <<backend, hw, clock, repeat, result>>

\* mutant: the loop runs one iteration short
RunReturn_one_short ==
    /\ pc = "loop"
    /\ Len(samples) + 1 >= repeat
    /\ result' = Statistics(repeat, samples)
    /\ pc' = "returned"
    /\ UNCHANGED <<WARNED, stdout, threads>>
    /\ UNCHANGED <<backend, hw, clock, log, collector, repeat, samples,
                   trace, obs>>

\* lines 52-79: the statistics over the samples, returned as the Run
RunReturn ==
    /\ pc = "loop"
    /\ Len(samples) = repeat
    /\ result' = Statistics(repeat, samples)
    /\ pc' = "returned"
    /\ UNCHANGED <<WARNED, stdout, threads>>
    /\ UNCHANGED <<backend, hw, clock, log, collector, repeat, samples,
                   trace, obs>>

NextRun ==
    \/ RunBegin
    \/ \E code \in ReadCodes : RunStart(code)
    \/ \E inc \in Incs : RunWorkload(inc)
    \/ \E code \in ReadCodes : RunEnd(code)
    \/ RunReturn
    \/ Tick

SpecRun == InitRun /\ [][NextRun]_vars

\* ------------------------------------------- the setup protocol on its own
\* the backends setup is run against: every database, slot map, class mask
\* and register count above, a failure of each call of the protocol, and a
\* missing symbol
SetupBackends ==
    HealthyBackends \cup FaultyBackends
    \cup { b \in UnloadableBackends : b.libs = "symbol_missing" }

InitSetup ==
    /\ backend \in SetupBackends
    /\ hw = InitialCounters
    /\ clock = 0
    /\ log = <<>>
    /\ pc = "new"
    /\ collector = NoCollector
    /\ repeat = 0
    /\ samples = <<>>
    /\ result = NoRun
    /\ trace = <<>>
    /\ obs = NoObs
    /\ WARNED = FALSE
    /\ stdout = <<>>
    /\ threads = NoThreads

\* Drop for EventCollector: takes the two libraries and frees each; it makes
\* no call into the backend
Drop ==
    /\ pc = "live"
    /\ pc' = "dropped"
    /\ log' = Append(Append(log, Call("Library::drop", "kperf", 0, 0)),
                     Call("Library::drop", "kperfdata", 0, 0))
    /\ UNCHANGED <<WARNED, stdout, threads>>
    /\ UNCHANGED <<backend, hw, clock, collector, repeat, samples, result,
                   trace, obs>>

\* a client that constructs the collector, calls has_events() and drops it
NextSetup ==
    \/ New
    \/ HasEvents
    \/ Tick
    \/ Drop

SpecSetup == InitSetup /\ [][NextSetup]_vars

\* ----------------------------------- get_counters called from many threads
InitThreads ==
    /\ backend = Backend("ok", NoFault, DbApple, <<0, 1, 2, 3>>, 3, 2)
    /\ hw = InitialCounters
    /\ clock = 0
    /\ log = <<>>
    /\ pc = "threads"
    /\ collector = NoCollector
    /\ repeat = 0
    /\ samples = <<>>
    /\ result = NoRun
    /\ trace = <<>>
    /\ obs = NoObs
    /\ WARNED = FALSE
    /\ stdout = <<>>
    /\ threads = NoThreads

\* lines 670-676: thread t's kpc_get_thread_counters answers `code`; a zero
\* code returns the counters, a nonzero one goes on to the latch
ThreadRead(t, code) ==
    /\ pc = "threads"
    /\ threads[t].pc = "idle"
    /\ threads[t].reads < MaxThreadReads
    /\ threads' = [threads EXCEPT
                      ![t] = [pc |-> IF code # 0 THEN "fetch_or" ELSE "idle",
                              reads |-> @.reads + 1,
                              fails |-> IF code # 0 THEN @.fails + 1
                                        ELSE @.fails]]
    /\ UNCHANGED <<backend, hw, clock, log, pc, collector, repeat, samples,
                   result, trace, obs, WARNED, stdout>>

\* mutant: the latch is read with load(), never set
ThreadFetchOr_load(t) ==
    /\ pc = "threads"
    /\ threads[t].pc = "fetch_or"
    /\ threads' = [threads EXCEPT
                      ![t].pc = IF WARNED THEN "idle" ELSE "println"]
    /\ UNCHANGED <<backend, hw, clock, log, pc, collector, repeat, samples,
                   result, trace, obs, WARNED, stdout>>

\* line 678: WARNED.fetch_or(true, Relaxed), one atomic read-modify-write
ThreadFetchOr(t) ==
    /\ pc = "threads"
    /\ threads[t].pc = "fetch_or"
    /\ WARNED' = TRUE
    /\ threads' = [threads EXCEPT
                      ![t].pc = IF WARNED THEN "idle" ELSE "println"]
    /\ UNCHANGED <<backend, hw, clock, log, pc, collector, repeat, samples,
                   result, trace, obs, stdout>>

\* line 679: println!, then line 682 returns
ThreadPrintln(t) ==
    /\ pc = "threads"
    /\ threads[t].pc = "println"
    /\ stdout' = Append(stdout, "Failed to get thread counters.")
    /\ threads' = [threads EXCEPT ![t].pc = "idle"]
    /\ UNCHANGED <<backend, hw, clock, log, pc, collector, repeat, samples,
                   result, trace, obs, WARNED>>

NextThreads ==
    \/ \E t \in Threads : \E code \in {0, 1} : ThreadRead(t, code)
    \/ \E t \in Threads : ThreadFetchOr(t)
    \/ \E t \in Threads : ThreadPrintln(t)

SpecThreads == InitThreads /\ [][NextThreads]_vars

\* ------------------------------------------------------ the four metrics
Metrics == {"cycles", "instructions", "missed_branches", "branches"}

\* metric m of an EventCount, through its accessor
MetricOf(ec, m) ==
    CASE m = "cycles" -> EventCount_cycles(ec)
      [] m = "instructions" -> EventCount_instructions(ec)
      [] m = "missed_branches" -> EventCount_missed_branches(ec)
      [] m = "branches" -> EventCount_branches(ec)

\* the position in profile_events of the logical event behind metric m
EventIndex(m) ==
    CASE m = "cycles" -> 1
      [] m = "instructions" -> 2
      [] m = "branches" -> 3
      [] m = "missed_branches" -> 4

\* the physical slot the backend assigned to metric m
SlotOf(m) == backend.map[EventIndex(m)]

AllZero(ec) == \A m \in Metrics : MetricOf(ec, m) = 0

\* C1 as stated: on a collector whose setup Failed, every end() returns
\* four zero metrics and a nonzero elapsed duration.
C1_FailedZeroWithNonzeroElapsed ==
    (pc = "live" /\ Failed(collector) /\ obs.ended > 0)
        => (AllZero(obs.ret) /\ obs.ret.elapsed > 0)

\* C1 amended: on a collector whose setup Failed, every end() returns four
\* zero metrics and a valid elapsed duration, which is never negative but
\* is zero when the clock did not advance before end() read it.
C1_FailedZeroWithValidElapsed ==
    (pc = "live" /\ Failed(collector) /\ obs.ended > 0)
        => /\ AllZero(obs.ret)
           /\ obs.ret.elapsed >= 0
           /\ obs.ret.elapsed <= obs.end_clock

C1_Witness ==
    /\ pc = "live"
    /\ backend.fault.call = "kpc_force_all_ctrs_get"
    /\ Failed(collector)
    /\ obs.starts > 0 /\ obs.ends > 0 /\ obs.works > 0
    /\ obs.ret.elapsed > 0

\* C2: on a Ready collector, a start() directly followed by an end(), both
\* counter reads succeeding, returns for every metric the end value minus
\* the start value of the hardware counter in the slot the backend assigned
\* to that metric's own logical event.
C2_DeltaThroughOwnSlot ==
    (pc = "live" /\ Ready(collector) /\ obs.starts > 0 /\ obs.ends = 1
       /\ obs.start_code = 0 /\ obs.end_code = 0)
        => \A m \in Metrics :
              MetricOf(obs.ret, m)
                  = obs.end_hw[SlotOf(m)] - obs.start_hw[SlotOf(m)]

C2_Witness ==
    /\ pc = "live" /\ Ready(collector)
    /\ obs.starts > 0 /\ obs.ends = 1
    /\ obs.start_code = 0 /\ obs.end_code = 0
    /\ backend.map = <<1, 0, 5, 2>>
    /\ MetricOf(obs.ret, "cycles") = 20
    /\ MetricOf(obs.ret, "instructions") = 10
    /\ MetricOf(obs.ret, "branches") = 60
    /\ MetricOf(obs.ret, "missed_branches") = 30

\* the setup-protocol calls of a log: every call but the counter reads
IsSetupCall(e) == e.call # "kpc_get_thread_counters"
SetupCallsOf(l) == SelectSeq(l, IsSetupCall)

\* C5: once setup has run, every later call of it, directly or through
\* start()/end(), issues no backend call of the protocol, leaves the cached
\* slot mapping, register values and flags as the first call left them, and
\* returns what the first call returned, Ready or Failed.
C5_SetupIdempotent ==
    (pc = "live")
        => /\ SetupCallsOf(log) = obs.first_log
           /\ collector.apple_events.counter_map = obs.first_ae.counter_map
           /\ collector.apple_events.regs = obs.first_ae.regs
           /\ collector.apple_events.init = obs.first_ae.init
           /\ collector.apple_events.worked = obs.first_ae.worked
           /\ obs.setup_ret = obs.first_ret

C5_Witness ==
    /\ pc = "live" /\ Ready(collector)
    /\ obs.setups >= 4 /\ obs.starts > 0 /\ obs.ended > 0
    /\ Len(log) > Len(obs.first_log)

\* C6 as stated: the elapsed duration end() returns is end()'s timestamp
\* minus the timestamp of the most recent start().
C6_ElapsedSinceLastStart ==
    (pc = "live" /\ obs.starts > 0 /\ obs.ends > 0)
        => obs.ret.elapsed = obs.end_clock - obs.start_clock

\* ------------------------------------------- the statistics, by hand
\* metric m of a PerformanceCounters
StatOf(p, m) ==
    CASE m = "cycles" -> p.cycles
      [] m = "instructions" -> p.instructions
      [] m = "missed_branches" -> p.missed_branches
      [] m = "branches" -> p.branches

\* the collected values of metric m, as a set of positions and by position
Positions == 1..Len(samples)
Sample(i, m) == MetricOf(samples[i], m)

RECURSIVE SumTo(_, _)
SumTo(n, m) == IF n = 0 THEN 0 ELSE SumTo(n - 1, m) + Sample(n, m)
RECURSIVE SumSquaresTo(_, _)
SumSquaresTo(n, m) ==
    IF n = 0 THEN 0 ELSE SumSquaresTo(n - 1, m) + Sample(n, m) * Sample(n, m)

SumOf(m) == SumTo(Len(samples), m)
SumSquaresOf(m) == SumSquaresTo(Len(samples), m)
Smallest(m) ==
    CHOOSE v \in {Sample(i, m) : i \in Positions} :
        \A i \in Positions : v <= Sample(i, m)
Largest(m) ==
    CHOOSE v \in {Sample(i, m) : i \in Positions} :
        \A i \in Positions : v >= Sample(i, m)

\* x is the integer v, x is the fraction n/d, x <= y for fractions
IsInteger(x, v) == x.k = "num" /\ x.d = 1 /\ x.n = v
IsFraction(x, n, d) == x.k = "num" /\ x.n * d = n * x.d
AtMost(x, y) == x.k = "num" /\ y.k = "num" /\ x.n * y.d <= y.n * x.d
\* x is the non-negative square root of the fraction n/d
IsRootOf(x, n, d) ==
    \/ x.k = "num" /\ x.n >= 0 /\ x.n * x.n * d = n * x.d * x.d
    \/ x.k = "sqrt" /\ x.n * d = n * x.d

HasNaN(p) == \E m \in Metrics : StatOf(p, m).k = "nan"

\* C3 as stated: for N >= 1 samples the standard deviation returned is, per
\* metric, the square root of the population variance: of the sum of the
\* squared deviations from the mean divided by N, which is
\* (N * sum(x^2) - sum(x)^2) / N^2.
C3_PopulationStdDev ==
    (pc = "returned" /\ repeat >= 1)
        => \A m \in Metrics :
              IsRootOf(StatOf(result.standard_deviation, m),
                       repeat * SumSquaresOf(m) - SumOf(m) * SumOf(m),
                       repeat * repeat)

\* C4 as stated: count_events called with repeat = 0 fails fast: it never
\* returns a Run, and no statistic is NaN.
C4_ZeroRepetitionsFailFast ==
    (repeat = 0)
        => /\ pc # "returned"
           /\ ~HasNaN(result.mean)
           /\ ~HasNaN(result.standard_deviation)

\* C7: for N >= 1 samples the Run returned has, per metric, mean = the sum
\* of the samples over N, minimum = the smallest sample and maximum = the
\* largest sample.
C7_MeanMinMax ==
    (pc = "returned" /\ repeat >= 1)
        => \A m \in Metrics :
              /\ IsFraction(StatOf(result.mean, m), SumOf(m), repeat)
              /\ IsInteger(StatOf(result.minimum, m), Smallest(m))
              /\ IsInteger(StatOf(result.maximum, m), Largest(m))

C7_Witness ==
    /\ pc = "returned" /\ repeat = 3
    /\ backend.map = <<0, 1, 2, 3>>
    /\ <<Sample(1, "cycles"), Sample(2, "cycles"), Sample(3, "cycles")>>
          = <<30, 10, 20>>
    /\ IsInteger(result.mean.cycles, 20)
    /\ IsInteger(result.minimum.cycles, 10)
    /\ IsInteger(result.maximum.cycles, 30)

\* C8: a run of one repetition returns a standard deviation of zero and
\* mean = minimum = maximum = the one sample, for every metric.
C8_SingleRepetition ==
    (pc = "returned" /\ repeat = 1)
        => \A m \in Metrics :
              /\ IsInteger(StatOf(result.standard_deviation, m), 0)
              /\ IsInteger(StatOf(result.mean, m), Sample(1, m))
              /\ IsInteger(StatOf(result.minimum, m), Sample(1, m))
              /\ IsInteger(StatOf(result.maximum, m), Sample(1, m))

C8_Witness ==
    /\ pc = "returned" /\ repeat = 1
    /\ Ready(collector)
    /\ \A m \in Metrics : Sample(1, m) > 0
    /\ Sample(1, "cycles") # Sample(1, "branches")

\* C9: a run of N >= 2 repetitions returns minimum <= mean <= maximum for
\* every metric.
C9_MeanBetweenMinAndMax ==
    (pc = "returned" /\ repeat >= 2)
        => \A m \in Metrics :
              /\ AtMost(StatOf(result.minimum, m), StatOf(result.mean, m))
              /\ AtMost(StatOf(result.mean, m), StatOf(result.maximum, m))

C9_Witness ==
    /\ pc = "returned" /\ repeat >= 2
    /\ \A m \in Metrics :
          /\ StatOf(result.minimum, m) # StatOf(result.mean, m)
          /\ StatOf(result.mean, m) # StatOf(result.maximum, m)
    /\ result.mean.cycles.d > 1

\* the calls of the first n iterations of the loop
RECURSIVE Iterations(_)
Iterations(n) ==
    IF n = 0 THEN <<>> ELSE Iterations(n - 1) \o <<"start", "f", "end">>

\* C10: count_events calls start(), the workload and end() in turn, once
\* each per iteration, and pushes what each end() returned, in order; when
\* it returns it has run the workload exactly `repeat` times.
C10_StartWorkloadEndPerIteration ==
    /\ Len(trace) <= 3 * repeat
    /\ trace = SubSeq(Iterations(repeat), 1, Len(trace))
    /\ samples = obs.rets
    /\ Len(samples) = Len(trace) \div 3
    /\ pc = "loop" => Len(trace) % 3 = 0
    /\ pc = "f" => Len(trace) % 3 = 1
    /\ pc = "end" => Len(trace) % 3 = 2
    /\ pc = "returned" => /\ trace = Iterations(repeat)
                          /\ obs.works = repeat
                          /\ Len(samples) = repeat

C10_Witness ==
    /\ pc = "returned" /\ repeat = 3
    /\ Ready(collector)
    /\ samples[1] # samples[2] /\ samples[2] # samples[3]

\* ------------------------------------------------------- event resolution
\* the position of the first name of `names` the database knows, 0 if none
FirstKnown(names, db) ==
    IF \E i \in 1..Len(names) : names[i] \in db
    THEN CHOOSE i \in 1..Len(names) :
             names[i] \in db /\ \A j \in 1..(i - 1) : names[j] \notin db
    ELSE 0

\* the calls of a log to backend function `name`
CallsOf(l, name) == SelectSeq(l, LAMBDA e : e.call = name)

\* setup got as far as resolving the events
ReachedGetEvents ==
    /\ pc = "live"
    /\ backend.fault.call \notin
          {"kpc_force_all_ctrs_get", "kpep_db_create", "kpep_config_create",
           "kpep_config_force_counters"}

\* the lookups made for the first n aliases of profile_events: per alias,
\* its names in declared order up to and including the first one known
RECURSIVE LookupsThrough(_, _)
LookupsThrough(n, db) ==
    IF n = 0 THEN <<>>
    ELSE LET names == profile_events[n].names
             k == FirstKnown(names, db)
         IN  LookupsThrough(n - 1, db)
             \o SubSeq(names, 1, IF k = 0 THEN Len(names) ELSE k)

\* the aliases looked up: all of them, or those up to the first unresolved
AliasesTried(db) ==
    IF \E n \in 1..Len(profile_events) :
          FirstKnown(profile_events[n].names, db) = 0
    THEN CHOOSE n \in 1..Len(profile_events) :
             /\ FirstKnown(profile_events[n].names, db) = 0
             /\ \A j \in 1..(n - 1) :
                    FirstKnown(profile_events[j].names, db) # 0
    ELSE Len(profile_events)

\* C11: event resolution tries an alias's candidate names in declared order
\* and stops at the first one the backend recognises: the lookups issued
\* are, per alias, its names up to and including the first known one, and
\* the event registered for the alias is that first known name, so that
\* when the first candidate fails and the second succeeds the second is
\* the resolved event and no third candidate is looked up.
C11_FirstRecognisedNameWins ==
    ReachedGetEvents
        => LET lookups == CallsOf(log, "kpep_db_event")
               adds == CallsOf(log, "kpep_config_add_event")
               expected == LookupsThrough(AliasesTried(backend.db), backend.db)
           IN  /\ [i \in 1..Len(lookups) |-> lookups[i].ev] = expected
               /\ \A i \in 1..Len(lookups) :
                      (lookups[i].ret = 0) <=> (lookups[i].ev \in backend.db)
               /\ \A i \in 1..Len(adds) :
                      LET names == profile_events[i].names
                      IN  adds[i].ev = names[FirstKnown(names, backend.db)]

C11_Witness ==
    /\ ReachedGetEvents
    /\ backend.db = DbIntelCore
    /\ FirstKnown(profile_events[1].names, backend.db) = 2
    /\ Len(profile_events[1].names) = 3
    /\ CallsOf(log, "kpep_db_event")[1] = Call("kpep_db_event", "FIXED_CYCLES", 0, 1)
    /\ CallsOf(log, "kpep_db_event")[2]
          = Call("kpep_db_event", "CPU_CLK_UNHALTED.THREAD", 0, 0)
    /\ CallsOf(log, "kpep_db_event")[3].ev = "FIXED_INSTRUCTIONS"
    /\ CallsOf(log, "kpep_config_add_event")[1].ev = "CPU_CLK_UNHALTED.THREAD"

\* C12 as stated: setup is lazy and runs exactly once: no setup backend
\* call is issued before the first start() on a collector, the first
\* start() runs the protocol, and the protocol's first call is never
\* issued a second time.
C12_LazySetupExactlyOnce ==
    (pc = "live")
        => /\ (obs.starts = 0 /\ obs.ended = 0 /\ obs.setups <= 1)
                 => SetupCallsOf(log) = <<>>
           /\ obs.starts > 0 => Len(SetupCallsOf(log)) > 0
           /\ Len(CallsOf(log, "kpc_force_all_ctrs_get")) <= 1

\* C13: when the thread-counter read reports a nonzero code the sample
\* returned has all four metrics at 1 (a start() stores exactly that, an
\* end() subtracts the start sample from it), and the collector stays
\* Ready: every later start() and end() still reads the counters.
C13_FailedReadGivesOnes ==
    (pc = "live" /\ obs.fails > 0)
        => /\ Ready(collector)
           /\ Len(CallsOf(log, "kpc_get_thread_counters"))
                 = obs.starts + obs.ended
           /\ (obs.ends = 0 /\ obs.start_code = 1)
                 => collector.diff = PerformanceCounters_from_value(Rat(1, 1))
           /\ (obs.ends = 1 /\ obs.end_code = 1 /\ obs.start_code = 0)
                 => \A m \in Metrics :
                       StatOf(collector.diff, m)
                           = Rat(1 - obs.start_hw[SlotOf(m)], 1)
           /\ (obs.ends = 1 /\ obs.end_code = 0 /\ obs.start_code = 1)
                 => \A m \in Metrics :
                       StatOf(collector.diff, m)
                           = Rat(obs.end_hw[SlotOf(m)] - 1, 1)

C13_Witness ==
    /\ pc = "live" /\ Ready(collector)
    /\ obs.fails > 0
    /\ obs.start_code = 1 /\ obs.ends = 1 /\ obs.end_code = 0
    /\ Len(CallsOf(log, "kpc_get_thread_counters")) >= 3
    /\ \A m \in Metrics : MetricOf(obs.ret, m) = obs.end_hw[SlotOf(m)] - 1

\* the diagnostic lines printed so far
Warnings ==
    SelectSeq(stdout, LAMBDA line : line = "Failed to get thread counters.")

\* C14: however the failing reads of the threads interleave, the
\* diagnostic is never printed twice, and once every thread is back from
\* get_counters it has been printed exactly once if any read failed (and
\* not at all if none did).
C14_WarnedOncePerProcess ==
    /\ Len(Warnings) <= 1
    /\ (\A t \in Threads : threads[t].pc = "idle")
          => (Len(Warnings) = 1
                <=> (obs.fails > 0 \/ \E t \in Threads : threads[t].fails > 0))

C14_Witness ==
    /\ pc = "threads"
    /\ \A t \in Threads : threads[t].pc = "idle" /\ threads[t].fails >= 2
    /\ Len(Warnings) = 1

\* every metric of every statistic of a Run is zero
ZeroRun(run) ==
    \A m \in Metrics :
        /\ IsInteger(StatOf(run.mean, m), 0)
        /\ IsInteger(StatOf(run.minimum, m), 0)
        /\ IsInteger(StatOf(run.maximum, m), 0)
        /\ IsInteger(StatOf(run.standard_deviation, m), 0)

\* C15 as stated: whatever makes setup fail (a library or symbol that does
\* not load, a permission or configuration error), count_events with
\* repeat >= 1 never aborts, runs the workload repeat times and returns
\* statistics whose metrics are all zero.
C15_FailOpenEveryFailureClass ==
    (repeat >= 1 /\ pc # "count_events"
       /\ (backend.libs # "ok" \/ Failed(collector)))
        => /\ pc # "panicked"
           /\ pc = "returned" => (obs.works = repeat /\ ZeroRun(result))

\* some logical event has no name the database knows
SomeEventUnresolved ==
    \E n \in 1..Len(profile_events) :
        FirstKnown(profile_events[n].names, backend.db) = 0

\* C16: every backend call of the setup protocol is a hard gate: a call
\* that reports an error is the last call of the protocol and leaves the
\* collector Failed; so does an event none of whose names resolves, after
\* which no event is added; each injected error is reached; and a Ready
\* collector saw no error from any gate.
C16_EveryCallIsAHardGate ==
    (pc = "live")
        => LET l == SetupCallsOf(log)
           IN  /\ Ready(collector) \/ Failed(collector)
               /\ \A i \in 1..Len(l) :
                      (l[i].ret # 0 /\ l[i].call # "kpep_db_event")
                          => (i = Len(l) /\ Failed(collector))
               /\ (backend.fault # NoFault)
                      => /\ Failed(collector)
                         /\ l[Len(l)].call = backend.fault.call
                         /\ l[Len(l)].ret # 0
               /\ (ReachedGetEvents /\ SomeEventUnresolved)
                      => /\ Failed(collector)
                         /\ l[Len(l)].call = "kpep_db_event"
                         /\ l[Len(l)].ret # 0
                         /\ CallsOf(l, "kpep_config_add_event") = <<>>
               /\ Ready(collector)
                      => \A i \in 1..Len(l) :
                            l[i].call # "kpep_db_event" => l[i].ret = 0

C16_Witness ==
    /\ pc = "live"
    /\ backend.fault.call = "kpc_set_thread_counting"
    /\ Failed(collector)
    /\ collector.apple_events.counter_map[2] = 5
    /\ Len(CallsOf(log, "kpc_set_counting")) = 1
    /\ log[Len(log)] = Call("kpc_set_thread_counting", "", 3, 1)
    /\ obs.setups >= 2

\* the alias under which profile_events lists metric m's logical event
AliasOf(m) ==
    CASE m = "cycles" -> "cycles"
      [] m = "instructions" -> "instructions"
      [] m = "branches" -> "branches"
      [] m = "missed_branches" -> "branch-misses"

\* the positions in a log of the calls to backend function `name`
PositionsOf(l, name) == {i \in 1..Len(l) : l[i].call = name}

\* C17: kpep_config_add_event is called only after all four logical events
\* have resolved (never when one resolves to none), at most four times and
\* exactly four times when setup gets past that step, the i-th call with
\* the event resolved for the i-th alias of cycles, instructions, branches,
\* branch-misses; and the sampler reads each metric through the slot-map
\* entry at that same position.
C17_AddEventsInLogicalOrder ==
    (pc = "live")
        => LET adds == CallsOf(log, "kpep_config_add_event")
           IN  /\ Len(adds) <= Len(profile_events)
               /\ (adds # <<>>)
                      => /\ ~SomeEventUnresolved
                         /\ \A i \in PositionsOf(log, "kpep_db_event") :
                            \A j \in PositionsOf(log, "kpep_config_add_event") :
                                i < j
                         /\ Len(CallsOf(log, "kpep_db_event"))
                               = Len(LookupsThrough(Len(profile_events),
                                                    backend.db))
               /\ \A i \in 1..Len(adds) :
                      /\ adds[i].ev \in
                            {profile_events[i].names[k] :
                                k \in 1..Len(profile_events[i].names)}
                      /\ adds[i].ev \in backend.db
               /\ (adds # <<>> /\ backend.fault.call # "kpep_config_add_event")
                      => Len(adds) = Len(profile_events)
               /\ Ready(collector)
                      => \A m \in Metrics :
                            /\ profile_events[EventIndex(m)].alias = AliasOf(m)
                            /\ StatOf(get_counters(collector.apple_events,
                                                   InitialCounters, 0,
                                                   <<>>).ret, m)
                                  = Rat(InitialCounters[
                                            collector.apple_events.counter_map[
                                                EventIndex(m) - 1]], 1)

C17_Witness ==
    /\ pc = "live" /\ Ready(collector)
    /\ backend.db = DbYonah
    /\ [i \in 1..4 |-> CallsOf(log, "kpep_config_add_event")[i].ev]
          = <<"CPU_CLK_UNHALTED.CORE", "INST_RETIRED.ANY", "INST_RETIRED.ANY",
              "BR_INST_RETIRED.MISPRED">>
    /\ collector.apple_events.counter_map[2] = 5

\* the kernel calls of the final setup step
KernelCalls ==
    {"kpc_force_all_ctrs_set", "kpc_set_config", "kpc_set_counting",
     "kpc_set_thread_counting"}

\* the configurable-class bit is set in the class mask the backend reads
\* back, and the register count it reads back is nonzero
RegistersRequested ==
    /\ backend.classes \in {KPC_CLASS_CONFIGURABLE_MASK,
                             KPC_CLASS_CONFIGURABLE_MASK + KPC_CLASS_FIXED_MASK}
    /\ backend.reg_count # 0

\* the kernel calls of a complete final step, in order
KernelSequence ==
    <<"kpc_force_all_ctrs_set">>
    \o (IF RegistersRequested THEN <<"kpc_set_config">> ELSE <<>>)
    \o <<"kpc_set_counting", "kpc_set_thread_counting">>

\* C18: the kernel calls of the final step are issued after every other
\* call of the protocol, in the order force-all-counters(1), program
\* registers, enable counting, enable thread counting; the registers are
\* programmed iff the configurable bit of the read-back class mask is set
\* and the read-back register count is nonzero; and both enabling calls
\* (and the programming call) are passed the read-back class mask.
C18_KernelStepOrder ==
    (pc = "live")
        => LET l == SetupCallsOf(log)
               k == SelectSeq(l, LAMBDA e : e.call \in KernelCalls)
           IN  /\ Len(k) <= Len(KernelSequence)
               /\ [i \in 1..Len(k) |-> k[i].call]
                     = SubSeq(KernelSequence, 1, Len(k))
               /\ \A i \in 1..Len(l) : \A j \in 1..Len(l) :
                      (l[i].call \notin KernelCalls /\ l[j].call \in KernelCalls)
                          => i < j
               /\ \A i \in 1..Len(k) :
                      k[i].arg = IF k[i].call = "kpc_force_all_ctrs_set"
                                 THEN 1 ELSE backend.classes
               /\ Ready(collector) => Len(k) = Len(KernelSequence)
               /\ (Len(k) > 0 /\ backend.fault.call \notin KernelCalls)
                      => Ready(collector)

C18_Witness ==
    /\ pc = "live" /\ Ready(collector)
    /\ backend.classes = 3 /\ backend.reg_count = 0
    /\ CallsOf(log, "kpc_set_config") = <<>>
    /\ CallsOf(log, "kpc_set_counting") = <<Call("kpc_set_counting", "", 3, 0)>>
    /\ log[Len(log)] = Call("kpc_set_thread_counting", "", 3, 0)

\* C19: worked implies init in every reachable state, and every step
\* (construction, has_events, start, end, with the counter reads failing or
\* not) keeps init once it is set, keeps a Failed collector Failed and a
\* Ready collector Ready.
C19_SetupStateStable ==
    /\ [](collector.apple_events.worked => collector.apple_events.init)
    /\ [][ /\ collector.apple_events.init => collector'.apple_events.init
           /\ Failed(collector) => Failed(collector')
           /\ Ready(collector) => Ready(collector') ]_vars

C19_Witness ==
    /\ pc = "live" /\ Ready(collector)
    /\ obs.fails > 0
    /\ obs.setups >= 4 /\ obs.starts > 0 /\ obs.ended > 0
    /\ obs.first_ret

\* C20: on a Ready collector, start() called twice or more with no end()
\* in between and then end(): the delta returned is, per metric, the end
\* sample minus the sample of the last of those start() calls, whatever
\* the earlier ones sampled.
C20_LastStartWins ==
    (pc = "live" /\ Ready(collector) /\ Len(obs.open_starts) >= 2
       /\ obs.ends = 1 /\ obs.start_code = 0 /\ obs.end_code = 0)
        => \A m \in Metrics :
              MetricOf(obs.ret, m)
                  = obs.end_hw[SlotOf(m)]
                    - obs.open_starts[Len(obs.open_starts)][SlotOf(m)]

C20_Witness ==
    /\ pc = "live" /\ Ready(collector)
    /\ Len(obs.open_starts) = 2 /\ obs.ends = 1
    /\ obs.start_code = 0 /\ obs.end_code = 0
    /\ \A m \in Metrics :
          obs.open_starts[1][SlotOf(m)] < obs.open_starts[2][SlotOf(m)]
    /\ AllZero(obs.ret)

\* C21 as stated: in every EventDelta end() returns, the 5th slot of the
\* raw vector (event_counts[4]) is zero and carries no metric.
C21_FifthSlotZero ==
    (pc = "live" /\ obs.ended > 0)
        => /\ obs.ret.event_counts[4] = 0
           /\ \A m \in Metrics : MetricOf(obs.ret, m) # obs.ret.event_counts[4]
                                      \/ MetricOf(obs.ret, m) = 0

\* C21 amended: in every EventDelta end() returns, the raw vector has five
\* slots; the 4th (event_counts[3]) is zero and carries no metric, and the
\* four metrics are held by the others: cycles in slot 0, instructions in
\* slot 1, missed branches in slot 2 and branches in slot 4, the 5th.
C21_FourthSlotZero ==
    (pc = "live" /\ obs.ended > 0)
        => /\ DOMAIN obs.ret.event_counts = 0..4
           /\ obs.ret.event_counts[3] = 0
           /\ (obs.ends > 0)
                 => /\ obs.ret.event_counts[0] = F64ToU64(collector.diff.cycles)
                    /\ obs.ret.event_counts[1]
                          = F64ToU64(collector.diff.instructions)
                    /\ obs.ret.event_counts[2]
                          = F64ToU64(collector.diff.missed_branches)
                    /\ obs.ret.event_counts[4]
                          = F64ToU64(collector.diff.branches)
           /\ (Ready(collector) /\ obs.ends = 1 /\ obs.start_code = 0
                 /\ obs.end_code = 0)
                 => obs.ret.event_counts[4]
                       = obs.end_hw[SlotOf("branches")]
                         - obs.start_hw[SlotOf("branches")]

C21_Witness ==
    /\ pc = "live" /\ Ready(collector) /\ obs.ended > 0
    /\ obs.ret.event_counts[3] = 0
    /\ obs.ret.event_counts[4] > 0
    /\ obs.ret.event_counts[4] = MetricOf(obs.ret, "branches")
    /\ \A m \in Metrics \ {"branches"} :
          MetricOf(obs.ret, m) \notin {0, obs.ret.event_counts[4]}


\* ---------------------------------------------------------------------- C22
\* handles the backend handed out (a call that returned 0) and handles given
\* back to it through the matching free function
Acquired(l, create) == Len(SelectSeq(l, LAMBDA e : e.call = create /\ e.ret = 0))
Released(l, free) == Len(CallsOf(l, free))

\* C22: every handle acquired during setup (the event database, the
\* configuration) is released on every exit path of setup, failure or
\* success, and none stays acquired once the collector has been dropped
C22_HandlesReleased ==
    (pc \in {"live", "dropped"})
        => /\ Released(log, "kpep_db_free") = Acquired(log, "kpep_db_create")
           /\ Released(log, "kpep_config_free")
                  = Acquired(log, "kpep_config_create")

\* ---------------------------------------------------------------------- C23
\* the hardware count of metric m between the most recent start() and the
\* most recent end()
SinceStart(m) == obs.end_hw[SlotOf(m)] - obs.start_hw[SlotOf(m)]

\* C23: on a Ready collector whose counter reads all succeed, in a sequence
\* of calls that begins with a start(), every end() returns its own sample
\* minus the sample of the most recent start(), also when end() is called
\* several times in a row after one start()
C23_EndMinusLatestStart ==
    (/\ pc = "live"
     /\ Ready(collector)
     /\ obs.fails = 0
     /\ obs.starts = 1
     /\ obs.ends > 0
     /\ obs.ended = obs.ends)
        => \A m \in Metrics : MetricOf(obs.ret, m) = SinceStart(m)

\* ---------------------------------------------------------------------- C24
\* what get_counters handed to the most recent start() and end() for metric
\* m on a Ready collector: the hardware count, or the sentinel 1 of a failed
\* read
StartSample(m) == IF obs.start_code = 0 THEN obs.start_hw[SlotOf(m)] ELSE 1
EndSample(m) == IF obs.end_code = 0 THEN obs.end_hw[SlotOf(m)] ELSE 1

\* C24: no metric returned by end() comes from unsigned wraparound: when the
\* end sample of a metric is smaller than its start sample the metric is 0,
\* and in every case the metric is at most the end sample
C24_NoWraparound ==
    (pc = "live" /\ Ready(collector) /\ obs.ends > 0)
        => \A m \in Metrics :
              /\ (obs.starts > 0 /\ EndSample(m) < StartSample(m))
                    => MetricOf(obs.ret, m) = 0
              /\ MetricOf(obs.ret, m) <= EndSample(m)

\* ---------------------------------------------------------------------- C25
\* the backend calls that change its global counting state
StateChanging ==
    {"kpc_force_all_ctrs_set", "kpc_set_config", "kpc_set_counting",
     "kpc_set_thread_counting"}

\* the calls of l that took effect: a state-changing call the backend accepted
TookEffect(l) ==
    {i \in DOMAIN l : l[i].call \in StateChanging /\ l[i].arg # 0
                                                  /\ l[i].ret = 0}

\* a later accepted call of the same operation that switches it off again
Undone(l, i) ==
    \E j \in DOMAIN l :
        j > i /\ l[j].call = l[i].call /\ l[j].arg = 0 /\ l[j].ret = 0

\* C25: a setup that ends in Failed leaves the backend's global counting
\* state unchanged: no state-changing backend operation has taken effect
\* without being undone
C25_FailedLeavesBackendUnchanged ==
    (pc \in {"live", "dropped"} /\ Failed(collector))
        => \A i \in TookEffect(log) : Undone(log, i)
====
